---- MODULE Spec2Model ----
(***************************************************************************)
(* A model of ktail's reconciliation controller (src/controller.go).       *)
(*                                                                         *)
(* The controller turns pod events (initial listing, add, update, delete)  *)
(* into addContainer / deleteContainer calls on a registry of tailers that *)
(* is guarded by one mutex.  Threads: the Run thread (thread 0), one       *)
(* informer thread per namespace (threads 1..Len(Namespaces)) and one      *)
(* goroutine per launched tailer.                                          *)
(*                                                                         *)
(* Two specifications are given.  Spec is the controller as a concurrent   *)
(* state machine.  SpecFn applies the two pure functions of the file,      *)
(* shouldIncludeContainer and getStartTimestamp, to every input of a       *)
(* bounded input space and records what they return.                       *)
(***************************************************************************)
EXTENDS Integers, Sequences, FiniteSets, TLC

----------------------------------------------------------------------------
(* Bounds of the model *)

\* watch events (add/update/delete) delivered over all informers
MaxEvents == 2
\* steps of the tailers' goroutines (a failure reported, a Run that returns)
MaxTailerSteps == 1

----------------------------------------------------------------------------
(* Values *)

\* time.Second * -5 in getStartTimestamp
SkewSeconds == 5

\* a nil *time.Time is <<>>, a pointer to instant v is <<v>>
NilTime == <<>>

\* v1.PodPhase values
PodPending == "Pending"
PodRunning == "Running"
PodSucceeded == "Succeeded"
PodFailed == "Failed"

\* v1.ContainerState: which of Waiting / Running / Terminated is non-nil
\* ("" when none is: the zero value)
StateNone == ""
StateWaiting == "waiting"
StateRunning == "running"
StateTerminated == "terminated"

Container(name) == [Name |-> name]

Status(name, state, startedAt) ==
    [Name |-> name, State |-> state, StartedAt |-> startedAt]

\* the zero value of v1.ContainerStatus
ZeroStatus == Status("", StateNone, 0)

Pod(ns, name, phase, inits, containers, initStatuses, statuses) ==
    [Namespace |-> ns, Name |-> name, Phase |-> phase,
     InitContainers |-> inits, Containers |-> containers,
     InitContainerStatuses |-> initStatuses, ContainerStatuses |-> statuses]

NoPod == Pod("", "", "", <<>>, <<>>, <<>>, <<>>)

\* a Matcher is given by the pods and the containers it matches
Matcher(pods, containers) == [pods |-> pods, containers |-> containers]

MatchPod(m, pod) == pod.Name \in m.pods

MatchContainer(m, container) == container.Name \in m.containers

ControllerOptions(incl, excl, sinceStart, since, containerName) ==
    [InclusionMatcher |-> incl, ExclusionMatcher |-> excl,
     SinceStart |-> sinceStart, Since |-> since, ContainerName |-> containerName]

\* ControllerOptions.Namespaces
Namespaces == <<"ns1", "ns2">>

----------------------------------------------------------------------------
(* State *)

VARIABLES
    opts,                 \* ctl.ControllerOptions, fixed at construction
    tailers,              \* ctl.tailers: key -> index into heap
    heap,                 \* every ContainerTailer constructed so far
    mutex,                \* ctl.Mutex: 0 when free, else 1 + the holding thread
    pc,                   \* position of the Run thread and of each informer thread
    frame,                \* the handler each thread is running: event, pod, loop index
    run,                  \* locals of Run: namespace index, listed pods, discoveredAny, result
    stopCh,               \* "open" or "closed"
    ctxDone,              \* the cancellation signal of Run's context has fired
    onEnterCalls,         \* per key, per <<initialAddPhase, result>>: invocations
                          \* of callbacks.OnEnter with that argument and result
    onExitCalls,          \* per key: invocations of callbacks.OnExit
    onErrorCalls,         \* per key: invocations of callbacks.OnError
    onNothingDiscoveredCalls, \* invocations of callbacks.OnNothingDiscovered
    nEvents,              \* watch events delivered so far
    nTailerSteps,         \* steps the tailers' goroutines have taken so far
    call                  \* SpecFn only: the last pure-function call and its result

vars == <<opts, tailers, heap, mutex, pc, frame, run, stopCh, ctxDone,
          onEnterCalls, onExitCalls, onErrorCalls,
          onNothingDiscoveredCalls, nEvents, nTailerSteps, call>>

\* invocations of OnEnter for key k: all, those that returned true, those of
\* the initial-add pass, and those of the initial-add pass that returned true
EnterCalls(k) == onEnterCalls[k][<<TRUE, TRUE>>] + onEnterCalls[k][<<TRUE, FALSE>>]
                 + onEnterCalls[k][<<FALSE, TRUE>>] + onEnterCalls[k][<<FALSE, FALSE>>]

EnterAccepted(k) == onEnterCalls[k][<<TRUE, TRUE>>] + onEnterCalls[k][<<FALSE, TRUE>>]

EnterInitial(k) == onEnterCalls[k][<<TRUE, TRUE>>] + onEnterCalls[k][<<TRUE, FALSE>>]

callbackVars == <<onEnterCalls, onExitCalls, onErrorCalls,
                  onNothingDiscoveredCalls>>

----------------------------------------------------------------------------
(* Pure helpers of the controller *)

\* fmt.Sprintf("%s/%s/%s", pod.Namespace, pod.Name, container.Name)
buildKey(pod, container) == <<pod.Namespace, pod.Name, container.Name>>

\* make([]v1.ContainerStatus, n) holds n zero values, and the two appends
\* put the init statuses and then the regular statuses after them
allContainerStatusesForPod(pod) ==
    [i \in 1..(Len(pod.ContainerStatuses) + Len(pod.InitContainerStatuses))
        |-> ZeroStatus]
    \o pod.InitContainerStatuses \o pod.ContainerStatuses

\* the phase gate left out
PhaseAdmittedAlways(pod) == TRUE

\* pod.Status.Phase == v1.PodRunning || pod.Status.Phase == v1.PodPending
PhaseAdmitted(pod) == pod.Phase = PodRunning \/ pod.Phase = PodPending

\* the loop that sets `running`: some status of this name with a non-nil state
HasStatus(pod, container) ==
    \E i \in DOMAIN allContainerStatusesForPod(pod) :
        LET s == allContainerStatusesForPod(pod)[i]
        IN  s.Name = container.Name /\ s.State # StateNone

\* ContainerName != "" && ContainerName != container.Name
NameFiltered(container) ==
    opts.ContainerName # "" /\ opts.ContainerName # container.Name

\* ctl.ExclusionMatcher.Match(pod)
PodExcluded(pod) == MatchPod(opts.ExclusionMatcher, pod)

\* the inclusion Matcher asked about the pod only
InclusionMatchedPodOnly(pod, container) == MatchPod(opts.InclusionMatcher, pod)

\* ctl.InclusionMatcher.Match(pod) || ctl.InclusionMatcher.Match(container)
InclusionMatched(pod, container) ==
    MatchPod(opts.InclusionMatcher, pod)
    \/ MatchContainer(opts.InclusionMatcher, container)

\* the final gate left out: return true
ContainerExcludedNever(container) == FALSE

\* ctl.ExclusionMatcher.Match(container)
ContainerExcluded(container) == MatchContainer(opts.ExclusionMatcher, container)

shouldIncludeContainer(pod, container) ==
    IF ~PhaseAdmitted(pod) THEN FALSE
    ELSE IF ~HasStatus(pod, container) THEN FALSE
    ELSE IF NameFiltered(container) THEN FALSE
    ELSE IF PodExcluded(pod) THEN FALSE
    ELSE IF ~InclusionMatched(pod, container) THEN FALSE
    ELSE ~ContainerExcluded(container)

\* the comparison turned round: the latest start time wins
BeforeReversed(a, b) == a > b

\* startTime.Before(*t)
Before(a, b) == a < b

\* the default case's loop over the statuses from index i on, t the pointer so far
RECURSIVE EarliestRunning(_, _, _, _)
EarliestRunning(statuses, container, i, t) ==
    IF i > Len(statuses) THEN t
    ELSE LET status == statuses[i]
             hit == status.Name = container.Name /\ status.State = StateRunning
             t2 == IF hit /\ (t = NilTime \/ Before(status.StartedAt, t[1]))
                   THEN <<status.StartedAt>> ELSE t
         IN  EarliestRunning(statuses, container, i + 1, t2)

\* the first two cases of the switch in the other order
getStartTimestampSinceFirst(pod, container, initialAdd, now) ==
    IF opts.Since # NilTime THEN <<opts.Since, TRUE>>
    ELSE IF opts.SinceStart THEN <<NilTime, TRUE>>
    ELSE IF initialAdd THEN << <<now - SkewSeconds>>, TRUE >>
    ELSE LET t == EarliestRunning(allContainerStatusesForPod(pod), container, 1, NilTime)
         IN  IF t = NilTime THEN <<NilTime, FALSE>> ELSE <<t, TRUE>>

\* returns <<timestamp, ok>>; now is what time.Now() returns
getStartTimestamp(pod, container, initialAdd, now) ==
    IF opts.SinceStart THEN <<NilTime, TRUE>>
    ELSE IF opts.Since # NilTime THEN <<opts.Since, TRUE>>
    ELSE IF initialAdd THEN << <<now - SkewSeconds>>, TRUE >>
    ELSE LET t == EarliestRunning(allContainerStatusesForPod(pod), container, 1, NilTime)
         IN  IF t = NilTime THEN <<NilTime, FALSE>> ELSE <<t, TRUE>>

----------------------------------------------------------------------------
(* What the Watch Source may supply to the controller under Spec *)

\* pod p1 of ns1 has one init container and two regular containers,
\* pod p2 of ns2 has one regular container
P1(phase, initStatuses, statuses) ==
    Pod("ns1", "p1", phase, <<Container("init-a")>>,
        <<Container("c1"), Container("c2")>>, initStatuses, statuses)

P2(phase, statuses) ==
    Pod("ns2", "p2", phase, <<>>, <<Container("c1")>>, <<>>, statuses)

\* snapshots of p1: starting up (init container running, the others waiting),
\* running (c1 reported twice with different start times, the later first),
\* and completed
Snapshots(ns) ==
    IF ns = "ns1" THEN
        { P1(PodPending, <<Status("init-a", StateRunning, 1)>>,
             <<Status("c1", StateWaiting, 0), Status("c2", StateWaiting, 0)>>),
          P1(PodRunning, <<Status("init-a", StateTerminated, 0)>>,
             <<Status("c1", StateRunning, 3), Status("c1", StateRunning, 2),
               Status("c2", StateRunning, 3)>>),
          P1(PodSucceeded, <<Status("init-a", StateTerminated, 0)>>,
             <<Status("c1", StateTerminated, 0), Status("c2", StateTerminated, 0)>>) }
    ELSE
        { P2(PodRunning, <<Status("c1", StateRunning, 2)>>) }

\* what podListWatcher.List may return for a namespace: no pod or one pod
Listings(ns) == {<<>>} \cup {<<pod>> : pod \in Snapshots(ns)}

\* what time.Now() returns under Spec
Nows == {10}

NoMatcher == Matcher({}, {})

\* the configurations Spec starts from
MainOptions ==
    { ControllerOptions(Matcher({}, {"c1"}), NoMatcher, FALSE, NilTime, ""),
      ControllerOptions(Matcher({"p1", "p2"}, {}), Matcher({}, {"c2"}),
                        FALSE, NilTime, ""),
      ControllerOptions(Matcher({"p1", "p2"}, {}), Matcher({"p1"}, {}),
                        FALSE, NilTime, "") }

\* every key the Watch Source's pods can give rise to
Keys ==
    UNION { { buildKey(pod, pod.InitContainers[i]) : i \in DOMAIN pod.InitContainers }
            \cup { buildKey(pod, pod.Containers[i]) : i \in DOMAIN pod.Containers }
            : pod \in UNION { Snapshots(Namespaces[n]) : n \in DOMAIN Namespaces } }

----------------------------------------------------------------------------
(* Threads *)

RunThread == 0

Informers == DOMAIN Namespaces

Threads == {RunThread} \cup Informers

NoContainer == Container("")

NoFrame == [ev |-> "", pod |-> NoPod, idx |-> 0, added |-> FALSE,
            container |-> NoContainer]

NewFrame(ev, pod) == [ev |-> ev, pod |-> pod, idx |-> 1, added |-> FALSE,
                      container |-> NoContainer]

NoCall == [fn |-> "", pod |-> NoPod, container |-> NoContainer,
           initialAdd |-> FALSE, now |-> 0, ret |-> <<>>]

Init ==
    /\ opts \in MainOptions
    /\ tailers = [k \in {} |-> 0]
    /\ heap = <<>>
    /\ mutex = {}
    /\ pc = [t \in Threads |-> IF t = RunThread THEN "list" ELSE "off"]
    /\ frame = [t \in Threads |-> NoFrame]
    /\ run = [ns |-> 1, items |-> <<>>, discoveredAny |-> FALSE, result |-> ""]
    /\ stopCh = "open"
    /\ ctxDone = FALSE
    /\ onEnterCalls = [k \in Keys |-> [a \in BOOLEAN \X BOOLEAN |-> 0]]
    /\ onExitCalls = [k \in Keys |-> 0]
    /\ onErrorCalls = [k \in Keys |-> 0]
    /\ onNothingDiscoveredCalls = 0
    /\ nEvents = 0
    /\ nTailerSteps = 0
    /\ call = NoCall

----------------------------------------------------------------------------
(* Run *)

\* podListWatcher.List succeeds with the pods of namespace run.ns
RunList ==
    /\ pc[RunThread] = "list"
    /\ \E items \in Listings(Namespaces[run.ns]) :
           run' = [run EXCEPT !.items = items]
    /\ pc' = [pc EXCEPT ![RunThread] = "pods"]
    /\ UNCHANGED <<opts, tailers, heap, mutex, frame, stopCh, ctxDone,
                   callbackVars, nEvents, nTailerSteps, call>>

\* close(stopCh) not deferred: the early return leaves stopCh open
RunListErrorNoClose ==
    /\ pc[RunThread] = "list"
    /\ run' = [run EXCEPT !.result = "listing pods"]
    /\ pc' = [pc EXCEPT ![RunThread] = "returned"]
    /\ UNCHANGED <<opts, tailers, heap, mutex, frame, stopCh, ctxDone,
                   callbackVars, nEvents, nTailerSteps, call>>

\* podListWatcher.List fails: Run returns the wrapped error, and the deferred
\* close(stopCh) runs
RunListError ==
    /\ pc[RunThread] = "list"
    /\ run' = [run EXCEPT !.result = "listing pods"]
    /\ stopCh' = "closed"
    /\ pc' = [pc EXCEPT ![RunThread] = "returned"]
    /\ UNCHANGED <<opts, tailers, heap, mutex, frame, ctxDone,
                   callbackVars, nEvents, nTailerSteps, call>>

\* the next pod of the listing: ctl.onInitialAdd(&pod) is entered
RunNextPod ==
    /\ pc[RunThread] = "pods"
    /\ run.items # <<>>
    /\ frame' = [frame EXCEPT ![RunThread] = NewFrame("initial", Head(run.items))]
    /\ run' = [run EXCEPT !.items = Tail(run.items)]
    /\ pc' = [pc EXCEPT ![RunThread] = "loop"]
    /\ UNCHANGED <<opts, tailers, heap, mutex, stopCh, ctxDone,
                   callbackVars, nEvents, nTailerSteps, call>>

\* the listing is exhausted: go informer.Run(stopCh), then the next namespace
RunStartInformer ==
    /\ pc[RunThread] = "pods"
    /\ run.items = <<>>
    /\ run' = [run EXCEPT !.ns = run.ns + 1]
    /\ pc' = [pc EXCEPT ![run.ns] = "idle",
                        ![RunThread] = IF run.ns + 1 > Len(Namespaces)
                                       THEN "check" ELSE "list"]
    /\ UNCHANGED <<opts, tailers, heap, mutex, frame, stopCh, ctxDone,
                   callbackVars, nEvents, nTailerSteps, call>>

\* the test of discoveredAny left out
NothingDiscoveredAlways == TRUE

\* if !discoveredAny { ctl.callbacks.OnNothingDiscovered() }
NothingDiscovered == ~run.discoveredAny

RunCheckDiscovered ==
    /\ pc[RunThread] = "check"
    /\ onNothingDiscoveredCalls' =
           IF NothingDiscovered THEN onNothingDiscoveredCalls + 1
           ELSE onNothingDiscoveredCalls
    /\ pc' = [pc EXCEPT ![RunThread] = "wait"]
    /\ UNCHANGED <<opts, tailers, heap, mutex, frame, run, stopCh, ctxDone,
                   onEnterCalls, onExitCalls, onErrorCalls,
                   nEvents, nTailerSteps, call>>

\* the embedder cancels Run's context.  Run reads the context only at
\* <-ctx.Done(), so a cancellation before that is seen there and no earlier
Cancel ==
    /\ ~ctxDone
    /\ pc[RunThread] = "wait"
    /\ ctxDone' = TRUE
    /\ UNCHANGED <<opts, tailers, heap, mutex, pc, frame, run, stopCh,
                   callbackVars, nEvents, nTailerSteps, call>>

\* the receive from ctx.Done() left out: Run returns without waiting
RunReturnEarly ==
    /\ pc[RunThread] = "wait"
    /\ run' = [run EXCEPT !.result = "context canceled"]
    /\ stopCh' = "closed"
    /\ pc' = [pc EXCEPT ![RunThread] = "returned"]
    /\ UNCHANGED <<opts, tailers, heap, mutex, frame, ctxDone,
                   callbackVars, nEvents, nTailerSteps, call>>

\* Run made to stop every registered session before it returns
RunReturnStopsSessions ==
    /\ pc[RunThread] = "wait"
    /\ ctxDone
    /\ run' = [run EXCEPT !.result = "context canceled"]
    /\ stopCh' = "closed"
    /\ pc' = [pc EXCEPT ![RunThread] = "returned"]
    /\ heap' = [i \in DOMAIN heap |->
                  IF \E k \in DOMAIN tailers : tailers[k] = i
                  THEN [heap[i] EXCEPT !.stops = @ + 1] ELSE heap[i]]
    /\ tailers' = [k \in {} |-> 0]
    /\ UNCHANGED <<opts, mutex, frame, ctxDone,
                   callbackVars, nEvents, nTailerSteps, call>>

\* <-ctx.Done(); return ctx.Err(), and the deferred close(stopCh) runs
RunReturn ==
    /\ pc[RunThread] = "wait"
    /\ ctxDone
    /\ run' = [run EXCEPT !.result = "context canceled"]
    /\ stopCh' = "closed"
    /\ pc' = [pc EXCEPT ![RunThread] = "returned"]
    /\ UNCHANGED <<opts, tailers, heap, mutex, frame, ctxDone,
                   callbackVars, nEvents, nTailerSteps, call>>

----------------------------------------------------------------------------
(* The informers: delivery of watch events *)

\* informer.Run(stopCh) delivers the events of its namespace one at a time, each
\* handler returning before the next event.  It stops some time after stopCh
\* is closed; an event may still arrive until then, so the close does not
\* disable a delivery, and an informer that has stopped is one that delivers
\* nothing more
Deliver(w, ev) ==
    /\ pc[w] = "idle"
    /\ nEvents < MaxEvents
    /\ \E pod \in Snapshots(Namespaces[w]) :
           frame' = [frame EXCEPT ![w] = NewFrame(ev, pod)]
    /\ pc' = [pc EXCEPT ![w] = "loop"]
    /\ nEvents' = nEvents + 1
    /\ UNCHANGED <<opts, tailers, heap, mutex, run, stopCh, ctxDone,
                   callbackVars, nTailerSteps, call>>

\* AddFunc: ctl.onAdd(pod)
InformerAdd(w) == Deliver(w, "add")

\* UpdateFunc: ctl.onUpdate(pod), with the new pod
InformerUpdate(w) == Deliver(w, "update")

\* DeleteFunc: ctl.onDelete(pod)
InformerDelete(w) == Deliver(w, "delete")

----------------------------------------------------------------------------
(* The event handlers.  An action of a handler runs the handler's loop from *)
(* where it stands up to its next call of addContainer or deleteContainer   *)
(* and takes the mutex that call starts with, or runs it to the handler's   *)
(* return.  The iterations passed over read the thread's own pod snapshot   *)
(* and the options only.  The body of the call is carried out by the        *)
(* actions of the next section, and the loop then goes on.                  *)

Min(S) == CHOOSE x \in S : \A y \in S : x <= y

\* the call goes on without waiting for the mutex
LockNoWait(t) == mutex' = mutex \cup {t}

\* ctl.Lock()
Lock(t) ==
    /\ mutex = {}
    /\ mutex' = {t}

\* the loop reaches element k and calls addContainer / deleteContainer for c
EnterCall(t, callPc, k, c) ==
    /\ Lock(t)
    /\ pc' = [pc EXCEPT ![t] = callPc]
    /\ frame' = [frame EXCEPT ![t] = [@ EXCEPT !.idx = k, !.container = c]]

\* the two loops in the other order: containers, then init containers
RegularThenInit(pod) == pod.Containers \o pod.InitContainers

\* the loops of onInitialAdd and onAdd: init containers, then containers
InitThenRegular(pod) == pod.InitContainers \o pod.Containers

\* the test of shouldIncludeContainer left out: addContainer for every element
AddCallsAll(pod, i) == i..Len(InitThenRegular(pod))

\* the elements from index i on for which the loop calls addContainer
AddCalls(pod, i) ==
    {k \in i..Len(InitThenRegular(pod)) :
        shouldIncludeContainer(pod, InitThenRegular(pod)[k])}

onInitialAdd(t) ==
    /\ t = RunThread
    /\ pc[t] = "loop"
    /\ frame[t].ev = "initial"
    /\ LET f == frame[t]
           calls == AddCalls(f.pod, f.idx)
       IN  IF calls = {}
           THEN \* return added; if ctl.onInitialAdd(&pod) { discoveredAny = true }
                /\ run' = [run EXCEPT !.discoveredAny = @ \/ f.added]
                /\ pc' = [pc EXCEPT ![t] = "pods"]
                /\ frame' = [frame EXCEPT ![t] = NoFrame]
                /\ UNCHANGED mutex
           ELSE /\ EnterCall(t, "addContainer", Min(calls),
                             InitThenRegular(f.pod)[Min(calls)])
                /\ UNCHANGED run
    /\ UNCHANGED <<opts, tailers, heap, stopCh, ctxDone,
                   callbackVars, nEvents, nTailerSteps, call>>

\* the handler of an informer returns
HandlerReturn(t) ==
    /\ pc' = [pc EXCEPT ![t] = "idle"]
    /\ frame' = [frame EXCEPT ![t] = NoFrame]
    /\ UNCHANGED mutex

onAdd(t) ==
    /\ pc[t] = "loop"
    /\ frame[t].ev = "add"
    /\ LET f == frame[t]
           calls == AddCalls(f.pod, f.idx)
       IN  IF calls = {} THEN HandlerReturn(t)
           ELSE EnterCall(t, "addContainer", Min(calls),
                          InitThenRegular(f.pod)[Min(calls)])
    /\ UNCHANGED <<opts, tailers, heap, run, stopCh, ctxDone,
                   callbackVars, nEvents, nTailerSteps, call>>

\* the inner loop of onUpdate: the index of the first of `containers` with
\* this name, 0 when there is none (container == nil)
RECURSIVE FindContainer(_, _, _)
FindContainer(containers, name, i) ==
    IF i > Len(containers) THEN 0
    ELSE IF containers[i].Name = name THEN i
    ELSE FindContainer(containers, name, i + 1)

\* containers := pod.Spec.Containers
UpdateContainers(pod) == pod.Containers

\* the container of pod.Spec.Containers that status k names, as an index (0: nil)
StatusContainer(pod, k) ==
    FindContainer(UpdateContainers(pod), allContainerStatusesForPod(pod)[k].Name, 1)

onUpdate(t) ==
    /\ pc[t] = "loop"
    /\ frame[t].ev = "update"
    /\ LET f == frame[t]
           containerStatuses == allContainerStatusesForPod(f.pod)
           calls == {k \in f.idx..Len(containerStatuses) : StatusContainer(f.pod, k) # 0}
       IN  IF calls = {} THEN HandlerReturn(t)
           ELSE LET container == UpdateContainers(f.pod)[StatusContainer(f.pod, Min(calls))]
                IN  IF shouldIncludeContainer(f.pod, container)
                    THEN EnterCall(t, "addContainer", Min(calls), container)
                    ELSE EnterCall(t, "deleteContainer", Min(calls), container)
    /\ UNCHANGED <<opts, tailers, heap, run, stopCh, ctxDone,
                   callbackVars, nEvents, nTailerSteps, call>>

\* onDelete made to range over the init containers as well
DeleteContainersAll(pod) == pod.InitContainers \o pod.Containers

\* for _, container := range pod.Spec.Containers
DeleteContainers(pod) == pod.Containers

onDelete(t) ==
    /\ pc[t] = "loop"
    /\ frame[t].ev = "delete"
    /\ LET f == frame[t]
           items == DeleteContainers(f.pod)
       IN  IF f.idx > Len(items) THEN HandlerReturn(t)
           ELSE EnterCall(t, "deleteContainer", f.idx, items[f.idx])
    /\ UNCHANGED <<opts, tailers, heap, run, stopCh, ctxDone,
                   callbackVars, nEvents, nTailerSteps, call>>

----------------------------------------------------------------------------
(* addContainer and deleteContainer, after ctl.Lock() *)

\* the third argument of addContainer: true from onInitialAdd only
InitialAdd(ev) == ev = "initial"

\* the deferred ctl.Unlock() and the return to the handler's loop, which for
\* onInitialAdd then sets added = true
ReturnToLoop(t) ==
    /\ mutex' = mutex \ {t}
    /\ pc' = [pc EXCEPT ![t] = "loop"]
    /\ frame' = [frame EXCEPT ![t] =
                    [@ EXCEPT !.idx = @ + 1,
                              !.added = @ \/ (frame[t].ev = "initial"),
                              !.container = NoContainer]]

\* the existence check left out: every add goes on to the enter gate
KeyPresentNever(key) == FALSE

\* _, ok := ctl.tailers[key]
KeyPresent(key) == key \in DOMAIN tailers

\* the result of OnEnter is ignored
EnterVetoedNever(r) == FALSE

\* if !ctl.callbacks.OnEnter(...) { return }, r being what OnEnter returned
EnterVetoed(r) == ~r

\* the existence check and the enter gate
addContainerEnter(t) ==
    /\ pc[t] = "addContainer"
    /\ LET key == buildKey(frame[t].pod, frame[t].container)
       IN  IF KeyPresent(key)
           THEN /\ ReturnToLoop(t)
                /\ UNCHANGED onEnterCalls
           ELSE \E r \in BOOLEAN :
                  /\ onEnterCalls' =
                         [onEnterCalls EXCEPT
                            ![key][<<InitialAdd(frame[t].ev), r>>] = @ + 1]
                  /\ IF EnterVetoed(r)
                     THEN ReturnToLoop(t)
                     ELSE /\ pc' = [pc EXCEPT ![t] = "register"]
                          /\ UNCHANGED <<mutex, frame>>
    /\ UNCHANGED <<opts, tailers, heap, run, stopCh, ctxDone, onExitCalls,
                   onErrorCalls, onNothingDiscoveredCalls, nEvents,
                   nTailerSteps, call>>

\* NewContainerTailer(ctl.client, targetPod, targetContainer, OnEvent, from),
\* launched: the goroutine of addContainer runs tailer.Run
NewContainerTailer(targetPod, targetContainer, fromTimestamp) ==
    [Namespace |-> targetPod.Namespace, Pod |-> targetPod.Name,
     Container |-> targetContainer.Name, fromTimestamp |-> fromTimestamp,
     run |-> "running", stops |-> 0]

\* the tailer is constructed and launched but not put into the registry
RegisterNoInsert(key, tailer) ==
    /\ heap' = Append(heap, tailer)
    /\ UNCHANGED tailers

\* ctl.tailers[key] = tailer
Register(key, tailer) ==
    /\ heap' = Append(heap, tailer)
    /\ tailers' = (key :> (Len(heap) + 1)) @@ tailers

\* the timestamp resolution, the construction, the registration and the launch
addContainerRegister(t) ==
    /\ pc[t] = "register"
    /\ \E now \in Nows :
         LET pod == frame[t].pod
             container == frame[t].container
             res == getStartTimestamp(pod, container, InitialAdd(frame[t].ev), now)
         IN  IF ~res[2]
             THEN UNCHANGED <<tailers, heap>>
             ELSE Register(buildKey(pod, container),
                           NewContainerTailer(pod, container, res[1]))
    /\ ReturnToLoop(t)
    /\ UNCHANGED <<opts, run, stopCh, ctxDone, callbackVars, nEvents, nTailerSteps, call>>

\* the tailer is removed and OnExit is called, but tailer.Stop() is left out
UnregisterNoStop(key) ==
    /\ tailers' = [k \in DOMAIN tailers \ {key} |-> tailers[k]]
    /\ onExitCalls' = [onExitCalls EXCEPT ![key] = @ + 1]
    /\ UNCHANGED heap

\* delete(ctl.tailers, key); tailer.Stop(); ctl.callbacks.OnExit(pod, container)
Unregister(key) ==
    /\ tailers' = [k \in DOMAIN tailers \ {key} |-> tailers[k]]
    /\ heap' = [heap EXCEPT ![tailers[key]].stops = @ + 1]
    /\ onExitCalls' = [onExitCalls EXCEPT ![key] = @ + 1]

\* tailer, ok := ctl.tailers[key]
TailerFound(key) == key \in DOMAIN tailers

\* OnExit is called outside the if, also when no tailer was found
NotFoundStillExits(key) ==
    /\ onExitCalls' = [onExitCalls EXCEPT ![key] = @ + 1]
    /\ UNCHANGED <<tailers, heap>>

\* the if of deleteContainer has no else
NotFound(key) == UNCHANGED <<tailers, heap, onExitCalls>>

deleteContainerBody(t) ==
    /\ pc[t] = "deleteContainer"
    /\ LET key == buildKey(frame[t].pod, frame[t].container)
       IN  IF TailerFound(key) THEN Unregister(key) ELSE NotFound(key)
    /\ ReturnToLoop(t)
    /\ UNCHANGED <<opts, run, stopCh, ctxDone, onEnterCalls,
                   onErrorCalls, onNothingDiscoveredCalls, nEvents,
                   nTailerSteps, call>>

----------------------------------------------------------------------------
(* The goroutine of a tailer: tailer.Run(context.Background(), onError)      *)

TailerKey(i) == <<heap[i].Namespace, heap[i].Pod, heap[i].Container>>

\* Run has neither returned nor been told to stop
Running(i) == heap[i].run = "running" /\ heap[i].stops = 0

\* the error closure made to drop the failed tailer's registry entry
TailerFailUnregisters(i) ==
    /\ Running(i)
    /\ nTailerSteps < MaxTailerSteps
    /\ nTailerSteps' = nTailerSteps + 1
    /\ onErrorCalls' = [onErrorCalls EXCEPT ![TailerKey(i)] = @ + 1]
    /\ tailers' = [k \in {j \in DOMAIN tailers : tailers[j] # i} |-> tailers[k]]
    /\ UNCHANGED <<opts, heap, mutex, pc, frame, run, stopCh, ctxDone,
                   onEnterCalls, onExitCalls,
                   onNothingDiscoveredCalls, nEvents, call>>

\* the tailer fails: ctl.callbacks.OnError(&targetPod, &targetContainer, err)
TailerFail(i) ==
    /\ Running(i)
    /\ nTailerSteps < MaxTailerSteps
    /\ nTailerSteps' = nTailerSteps + 1
    /\ onErrorCalls' = [onErrorCalls EXCEPT ![TailerKey(i)] = @ + 1]
    /\ UNCHANGED <<opts, tailers, heap, mutex, pc, frame, run, stopCh, ctxDone,
                   onEnterCalls, onExitCalls,
                   onNothingDiscoveredCalls, nEvents, call>>

\* tailer.Run returns on its own: the stream ended
TailerEnd(i) ==
    /\ Running(i)
    /\ nTailerSteps < MaxTailerSteps
    /\ nTailerSteps' = nTailerSteps + 1
    /\ heap' = [heap EXCEPT ![i].run = "ended"]
    /\ UNCHANGED <<opts, tailers, mutex, pc, frame, run, stopCh, ctxDone,
                   callbackVars, nEvents, call>>

----------------------------------------------------------------------------
(* The controller *)

Next ==
    \/ RunList
    \/ RunListError
    \/ RunNextPod
    \/ RunStartInformer
    \/ RunCheckDiscovered
    \/ Cancel
    \/ RunReturn
    \/ \E w \in Informers :
         \/ InformerAdd(w)
         \/ InformerUpdate(w)
         \/ InformerDelete(w)
    \/ \E t \in Threads :
         \/ onInitialAdd(t)
         \/ onAdd(t)
         \/ onUpdate(t)
         \/ onDelete(t)
         \/ addContainerEnter(t)
         \/ addContainerRegister(t)
         \/ deleteContainerBody(t)
    \/ \E i \in DOMAIN heap :
         \/ TailerFail(i)
         \/ TailerEnd(i)

Spec == Init /\ [][Next]_vars

----------------------------------------------------------------------------
(* SpecFn: the two pure functions applied over a bounded input space *)

\* Matchers over pod p1 and container c1: each matches it or not
FnMatchers == { Matcher(ps, cs) : ps \in SUBSET {"p1"}, cs \in SUBSET {"c1"} }

FnOptions ==
    { ControllerOptions(incl, excl, sinceStart, since, name) :
        incl \in FnMatchers, excl \in FnMatchers, sinceStart \in BOOLEAN,
        since \in {NilTime, <<7>>}, name \in {"", "c1"} }

\* status lists of up to two entries
FnStatusPool ==
    { Status("c1", StateWaiting, 0), Status("c1", StateRunning, 2),
      Status("c1", StateRunning, 3), Status("c2", StateRunning, 1),
      Status("c1", StateNone, 0), Status("c1", StateTerminated, 0) }

FnStatusLists ==
    {<<>>} \cup { <<a>> : a \in FnStatusPool }
           \cup { <<a, b>> : a \in FnStatusPool, b \in FnStatusPool }

FnInitStatusLists == { <<>>, <<Status("init-a", StateTerminated, 0)>> }

FnPhases == {PodPending, PodRunning, PodSucceeded, PodFailed}

FnPods ==
    { P1(phase, initStatuses, statuses) :
        phase \in FnPhases, initStatuses \in FnInitStatusLists,
        statuses \in FnStatusLists }

FnContainers == {Container("init-a"), Container("c1"), Container("c2")}

FnNows == {10, 11}

InitFn ==
    /\ opts \in FnOptions
    /\ tailers = [k \in {} |-> 0]
    /\ heap = <<>>
    /\ mutex = {}
    /\ pc = [t \in Threads |-> IF t = RunThread THEN "list" ELSE "off"]
    /\ frame = [t \in Threads |-> NoFrame]
    /\ run = [ns |-> 1, items |-> <<>>, discoveredAny |-> FALSE, result |-> ""]
    /\ stopCh = "open"
    /\ ctxDone = FALSE
    /\ onEnterCalls = [k \in Keys |-> [a \in BOOLEAN \X BOOLEAN |-> 0]]
    /\ onExitCalls = [k \in Keys |-> 0]
    /\ onErrorCalls = [k \in Keys |-> 0]
    /\ onNothingDiscoveredCalls = 0
    /\ nEvents = 0
    /\ nTailerSteps = 0
    /\ call = NoCall

controllerVars == <<tailers, heap, mutex, pc, frame, run, stopCh, ctxDone,
                    callbackVars, nEvents, nTailerSteps>>

\* ctl.shouldIncludeContainer(pod, container) is called on a fresh controller
CallShouldIncludeContainer ==
    /\ call.fn = ""
    /\ \E pod \in FnPods, container \in FnContainers :
         call' = [fn |-> "shouldIncludeContainer", pod |-> pod,
                  container |-> container, initialAdd |-> FALSE, now |-> 0,
                  ret |-> <<shouldIncludeContainer(pod, container)>>]
    /\ UNCHANGED <<opts, controllerVars>>

\* ctl.getStartTimestamp(pod, container, initialAdd) is called at time now
CallGetStartTimestamp ==
    /\ call.fn = ""
    /\ \E pod \in FnPods, container \in FnContainers,
          initialAdd \in BOOLEAN, now \in FnNows :
         call' = [fn |-> "getStartTimestamp", pod |-> pod,
                  container |-> container, initialAdd |-> initialAdd, now |-> now,
                  ret |-> getStartTimestamp(pod, container, initialAdd, now)]
    /\ UNCHANGED <<opts, controllerVars>>

NextFn == CallShouldIncludeContainer \/ CallGetStartTimestamp

SpecFn == InitFn /\ [][NextFn]_vars

----------------------------------------------------------------------------
(* Properties *)

\* the tailers constructed for key k so far
TailersOf(k) == {i \in DOMAIN heap : TailerKey(i) = k}

\* tailer i is the one the registry holds for some key
Registered(i) == \E k \in DOMAIN tailers : tailers[k] = i

\* the container the loop of an onAdd / onInitialAdd frame has last called
\* addContainer for, once that call has returned
LastAdded(f) == InitThenRegular(f.pod)[f.idx - 1]

\* C1: whatever the sequence and interleaving of initial-add, onAdd and
\* onUpdate events for a key, the registry holds at most one tailer for it (and
\* that tailer is one constructed for this key), at most one tailer constructed
\* for it has not been stopped, and OnEnter is never invoked for a key that is
\* in the registry.
C1_AtMostOneSession ==
    /\ [](\A k \in Keys :
            /\ Cardinality({i \in TailersOf(k) : Registered(i)}) <= 1
            /\ Cardinality({i \in TailersOf(k) : heap[i].stops = 0}) <= 1
            /\ k \in DOMAIN tailers => tailers[k] \in TailersOf(k))
    /\ [][\A k \in Keys :
            EnterCalls(k)' # EnterCalls(k) => k \notin DOMAIN tailers]_vars

\* C1 witness: onAdd has called addContainer for a container whose session the
\* initial-add pass had registered, and the call returned without a second
\* OnEnter and without a second tailer.
C1_Witness ==
    \E t \in Informers :
        /\ pc[t] = "loop"
        /\ frame[t].ev = "add"
        /\ frame[t].idx > 1
        /\ LET k == buildKey(frame[t].pod, LastAdded(frame[t]))
           IN  /\ k \in DOMAIN tailers
               /\ EnterCalls(k) = 1
               /\ EnterInitial(k) = 1
               /\ Cardinality(TailersOf(k)) = 1

\* C2 as stated: a key is in the registry if and only if a tailer for it is
\* currently running (its Run has not returned and it has not been stopped).
C2_PresentIffRunning ==
    \A k \in Keys : k \in DOMAIN tailers <=> \E i \in TailersOf(k) : Running(i)

\* C2 amended: a key is in the registry if and only if a tailer constructed
\* for it has not been stopped, and a running tailer is the one the registry
\* holds for its key; a tailer whose Run returned on its own keeps its key.
C2_PresentIffNotStopped ==
    /\ \A k \in Keys :
         k \in DOMAIN tailers <=> \E i \in TailersOf(k) : heap[i].stops = 0
    /\ \A i \in DOMAIN heap :
         Running(i) => /\ TailerKey(i) \in DOMAIN tailers
                       /\ tailers[TailerKey(i)] = i

\* C2 witness: the Run of a registered tailer has returned on its own and its
\* key is still in the registry.
C2_Witness ==
    \E k \in DOMAIN tailers :
        heap[tailers[k]].run = "ended" /\ heap[tailers[k]].stops = 0

\* the key of the call thread t is in
CallKey(t) == buildKey(frame[t].pod, frame[t].container)

\* per tailer, how often Stop was invoked on it
Stops == [i \in DOMAIN heap |-> heap[i].stops]

\* C3: deleteContainer for a key that is not in the registry changes nothing:
\* the registry is unchanged, no Stop and no OnExit is invoked; OnExit is
\* invoked exactly once per removal of a registered session, and Stop exactly
\* once on the tailer removed.
C3_DeleteAbsentNoOp ==
    /\ [](\A k \in Keys :
            /\ onExitCalls[k] = Cardinality({i \in TailersOf(k) : ~Registered(i)})
            /\ \A i \in TailersOf(k) :
                 heap[i].stops = IF Registered(i) THEN 0 ELSE 1)
    /\ [][\A t \in Threads :
            (pc[t] = "deleteContainer" /\ CallKey(t) \notin DOMAIN tailers)
            => /\ tailers' = tailers
               /\ onExitCalls' = onExitCalls
               /\ Stops' = Stops]_vars

\* C3 witness: onDelete has called deleteContainer for a container that never
\* had a session, and the call has returned.
C3_Witness ==
    \E t \in Informers :
        /\ pc[t] = "loop"
        /\ frame[t].ev = "delete"
        /\ frame[t].idx > 1
        /\ LET k == buildKey(frame[t].pod,
                             DeleteContainers(frame[t].pod)[frame[t].idx - 1])
           IN  /\ TailersOf(k) = {}
               /\ onExitCalls[k] = 0
               /\ k \notin DOMAIN tailers

\* C4: when OnEnter returns false, addContainer returns at once: no tailer is
\* constructed or launched, the registry is unchanged and the key stays absent,
\* the start timestamp is not resolved (the call does not go on to that step),
\* and neither OnExit nor OnError is invoked; so no key ever has more tailers
\* than accepted OnEnter calls.
C4_VetoRespected ==
    /\ [](\A k \in Keys : Cardinality(TailersOf(k)) <= EnterAccepted(k))
    /\ [][\A t \in Threads :
            (/\ pc[t] = "addContainer"
             /\ onEnterCalls'[CallKey(t)][<<InitialAdd(frame[t].ev), FALSE>>]
                    # onEnterCalls[CallKey(t)][<<InitialAdd(frame[t].ev), FALSE>>])
            => /\ pc'[t] = "loop"
               /\ tailers' = tailers
               /\ CallKey(t) \notin DOMAIN tailers'
               /\ heap' = heap
               /\ onExitCalls' = onExitCalls
               /\ onErrorCalls' = onErrorCalls]_vars

\* C4 witness: OnEnter has declined a container, which has no tailer and no
\* registry entry.
C4_Witness ==
    \E k \in Keys :
        /\ EnterCalls(k) > EnterAccepted(k)
        /\ TailersOf(k) = {}
        /\ k \notin DOMAIN tailers

\* every pod snapshot the Watch Source supplies
AllSnapshots == UNION { Snapshots(Namespaces[n]) : n \in DOMAIN Namespaces }

\* C5: a container that the exclusion Matcher matches, or whose pod it
\* matches, is not included by shouldIncludeContainer whatever the inclusion
\* Matcher says, and no add path invokes OnEnter or registers a session for it.
C5_ExclusionWins ==
    \A pod \in AllSnapshots : \A i \in DOMAIN InitThenRegular(pod) :
        LET container == InitThenRegular(pod)[i]
            k == buildKey(pod, container)
        IN  (MatchPod(opts.ExclusionMatcher, pod)
             \/ MatchContainer(opts.ExclusionMatcher, container))
            => /\ ~shouldIncludeContainer(pod, container)
               /\ EnterCalls(k) = 0
               /\ k \notin DOMAIN tailers
               /\ TailersOf(k) = {}

\* C5 witness: with c2 excluded, an event whose snapshot reports c1 and c2
\* running has been handled to its end: c1 has its session from that snapshot,
\* and OnEnter was never invoked for c2.
C5_Witness ==
    /\ opts.ExclusionMatcher.containers = {"c2"}
    /\ nEvents >= 1
    /\ pc[1] = "idle"
    /\ <<"ns1", "p1", "c1">> \in DOMAIN tailers
    /\ heap[tailers[<<"ns1", "p1", "c1">>]].fromTimestamp = <<2>>
    /\ EnterCalls(<<"ns1", "p1", "c2">>) = 0

\* C6: shouldIncludeContainer returns false for a pod whose phase is neither
\* Pending nor Running, whatever the Matchers, the name filter and the
\* statuses say.
C6_PhaseGate ==
    (call.fn = "shouldIncludeContainer"
     /\ call.pod.Phase \notin {"Pending", "Running"})
    => call.ret = <<FALSE>>

\* C6 witness: shouldIncludeContainer has returned false for a container of a
\* Succeeded pod that passes every other rule.
C6_Witness ==
    /\ call.fn = "shouldIncludeContainer"
    /\ call.pod.Phase = "Succeeded"
    /\ \E i \in DOMAIN call.pod.ContainerStatuses :
         /\ call.pod.ContainerStatuses[i].Name = call.container.Name
         /\ call.pod.ContainerStatuses[i].State = "running"
    /\ opts.ContainerName \in {"", call.container.Name}
    /\ ~MatchPod(opts.ExclusionMatcher, call.pod)
    /\ ~MatchContainer(opts.ExclusionMatcher, call.container)
    /\ MatchContainer(opts.InclusionMatcher, call.container)
    /\ call.ret = <<FALSE>>

\* C7 as stated: when onUpdate has handled a snapshot of phase Succeeded, no
\* session of a container of that pod, init or regular, is left in the
\* registry.
C7_SucceededUpdateStops ==
    [][\A t \in Informers :
         (/\ pc[t] = "loop"
          /\ frame[t].ev = "update"
          /\ frame[t].pod.Phase = "Succeeded"
          /\ pc'[t] = "idle")
         => \A i \in DOMAIN InitThenRegular(frame[t].pod) :
              buildKey(frame[t].pod, InitThenRegular(frame[t].pod)[i])
                  \notin DOMAIN tailers']_vars

\* Run has listed every namespace and is past its test of discoveredAny
PastDiscovery ==
    pc[RunThread] \in {"wait", "returned"} /\ run.result # "listing pods"

\* C8 as stated: once every namespace is listed, OnNothingDiscovered has been
\* invoked exactly once if the initial-add pass started no session, and not at
\* all if it started one.
C8_OnceIffNoSessionStarted ==
    PastDiscovery
    => (onNothingDiscoveredCalls = 1
        <=> \A k \in Keys : onEnterCalls[k][<<TRUE, TRUE>>] = 0)

\* C8 amended: OnNothingDiscovered is invoked at most once, never before every
\* namespace has been listed, and then exactly when the initial-add pass found
\* no container that passes the inclusion policy, that is when it invoked
\* OnEnter for none (a container OnEnter declined counts as discovered).
C8_OnceIffNothingIncluded ==
    /\ onNothingDiscoveredCalls <= 1
    /\ ~PastDiscovery => onNothingDiscoveredCalls = 0
    /\ PastDiscovery
       => (onNothingDiscoveredCalls = 1 <=> \A k \in Keys : EnterInitial(k) = 0)

\* C8 witness: both namespaces are listed, no container was included, and
\* OnNothingDiscovered has been invoked once.
C8_Witness ==
    /\ pc[RunThread] = "wait"
    /\ run.ns > Len(Namespaces)
    /\ \A k \in Keys : EnterInitial(k) = 0
    /\ onNothingDiscoveredCalls = 1

\* the start times of the running-state status entries, init or regular, that
\* carry the container's name
RunningStarts(pod, container) ==
    LET all == pod.InitContainerStatuses \o pod.ContainerStatuses
    IN  { all[i].StartedAt :
            i \in { j \in DOMAIN all : all[j].Name = container.Name
                                       /\ all[j].State = "running" } }

\* C9: a non-initial add with neither SinceStart nor Since starts its tailer
\* from the earliest start time among the running-state entries of the
\* container; with no such entry addContainer registers nothing, constructs no
\* tailer and invokes no OnError.
C9_EarliestRunning ==
    [][\A t \in Threads :
         (/\ pc[t] = "register"
          /\ pc'[t] # "register"
          /\ ~InitialAdd(frame[t].ev)
          /\ ~opts.SinceStart
          /\ opts.Since = NilTime)
         => LET starts == RunningStarts(frame[t].pod, frame[t].container)
            IN  IF starts = {}
                THEN /\ tailers' = tailers
                     /\ heap' = heap
                     /\ onErrorCalls' = onErrorCalls
                ELSE /\ Len(heap') = Len(heap) + 1
                     /\ CallKey(t) \in DOMAIN tailers'
                     /\ tailers'[CallKey(t)] = Len(heap')
                     /\ heap'[Len(heap')].fromTimestamp = <<Min(starts)>>
                     /\ heap'[Len(heap')].run = "running"]_vars

\* C9 witness: c1, reported running twice (since 3 and since 2), has a tailer
\* that starts from 2.
C9_Witness ==
    \E i \in DOMAIN heap :
        /\ TailerKey(i) = <<"ns1", "p1", "c1">>
        /\ heap[i].fromTimestamp = <<2>>

\* C10: getStartTimestamp returns no timestamp when SinceStart is set, else
\* Since when it is set, else now minus 5 seconds for an initial add, and
\* succeeds in these three cases; only otherwise do the statuses decide.
C10_TimestampPriority ==
    call.fn = "getStartTimestamp"
    => IF opts.SinceStart THEN call.ret = <<NilTime, TRUE>>
       ELSE IF opts.Since # NilTime THEN call.ret = <<opts.Since, TRUE>>
       ELSE IF call.initialAdd THEN call.ret = << <<call.now - 5>>, TRUE >>
       ELSE call.ret[2] = (RunningStarts(call.pod, call.container) # {})

\* C10 witness: with SinceStart and Since both set, an initial add of a
\* container that has a running-state entry resolved to no timestamp.
C10_Witness ==
    /\ call.fn = "getStartTimestamp"
    /\ opts.SinceStart
    /\ opts.Since # NilTime
    /\ call.initialAdd
    /\ RunningStarts(call.pod, call.container) # {}
    /\ call.ret = <<NilTime, TRUE>>

\* some thread is inside addContainer for key k, called from a handler whose
\* pod snapshot makes shouldIncludeContainer true for the container
IncludedAddFor(k) ==
    \E t \in Threads :
        /\ pc[t] \in {"addContainer", "register"}
        /\ frame[t].ev \in {"initial", "add", "update"}
        /\ CallKey(t) = k
        /\ shouldIncludeContainer(frame[t].pod, frame[t].container)

\* C11: OnEnter is invoked for a key, and the key enters the registry, only
\* inside an addContainer called from an event whose pod snapshot makes
\* shouldIncludeContainer true for the container; a container that no snapshot
\* of its pod makes included never gets an OnEnter, a tailer or a registry
\* entry.
C11_OnlyIncludedEnter ==
    /\ [][\A k \in Keys :
            (\/ EnterCalls(k)' # EnterCalls(k)
             \/ (k \in DOMAIN tailers' /\ k \notin DOMAIN tailers))
            => IncludedAddFor(k)]_vars
    /\ [](\A k \in Keys :
            \/ /\ EnterCalls(k) = 0
               /\ k \notin DOMAIN tailers
               /\ TailersOf(k) = {}
            \/ \E pod \in AllSnapshots : \E i \in DOMAIN InitThenRegular(pod) :
                 /\ buildKey(pod, InitThenRegular(pod)[i]) = k
                 /\ shouldIncludeContainer(pod, InitThenRegular(pod)[i]))

\* C11 witness: only c1 matches; an event of p1 has been handled to its end,
\* c1 has its session, and init-a and c2 have had no OnEnter and have no entry.
C11_Witness ==
    /\ opts.InclusionMatcher = Matcher({}, {"c1"})
    /\ opts.ExclusionMatcher = NoMatcher
    /\ nEvents >= 1
    /\ pc[1] = "idle"
    /\ DOMAIN tailers = {<<"ns1", "p1", "c1">>}
    /\ EnterCalls(<<"ns1", "p1", "init-a">>) = 0
    /\ EnterCalls(<<"ns1", "p1", "c2">>) = 0

\* C12: once the listing of a namespace has failed, Run has returned the
\* wrapped error and stopCh is closed (the informers of the earlier namespaces
\* are told to stop); the failing namespace and the later ones are neither
\* listed nor subscribed to, and no key of theirs has had an OnEnter or is in
\* the registry.
C12_ListErrorAborts ==
    run.result = "listing pods"
    => /\ pc[RunThread] = "returned"
       /\ stopCh = "closed"
       /\ run.items = <<>>
       /\ frame[RunThread] = NoFrame
       /\ \A w \in Informers :
            w >= run.ns
            => /\ pc[w] = "off"
               /\ \A k \in Keys :
                    k[1] = Namespaces[w]
                    => k \notin DOMAIN tailers /\ EnterCalls(k) = 0

\* C12 witness: the listing of ns2 has failed after ns1 was listed and
\* subscribed to; a session of ns1 is registered and ns2 has no informer.
C12_Witness ==
    /\ run.result = "listing pods"
    /\ run.ns = 2
    /\ pc[1] # "off"
    /\ pc[2] = "off"
    /\ \E k \in DOMAIN tailers : k[1] = "ns1"

\* C13: with all listings successful Run returns only once the cancellation
\* signal has fired, then with the cancellation's reason and with stopCh
\* closed, stopCh being open until Run returns; neither the cancellation nor
\* Run's return changes the registry, stops a tailer or invokes OnExit.
C13_ReturnOnCancelOnly ==
    /\ []((pc[RunThread] = "returned" /\ run.result # "listing pods")
          => /\ ctxDone
             /\ run.result = "context canceled"
             /\ stopCh = "closed")
    /\ [](pc[RunThread] # "returned" => stopCh = "open" /\ run.result = "")
    /\ [][(\/ ctxDone' # ctxDone
           \/ (pc[RunThread] = "wait" /\ pc'[RunThread] = "returned"))
          => /\ tailers' = tailers
             /\ heap' = heap
             /\ onExitCalls' = onExitCalls]_vars

\* C13 witness: Run has returned on cancellation and a session is still
\* registered, its tailer running.
C13_Witness ==
    /\ pc[RunThread] = "returned"
    /\ run.result = "context canceled"
    /\ \E k \in DOMAIN tailers : Running(tailers[k])

\* C14: when onDelete(pod) returns, no key of a regular container of the pod
\* is in the registry; each deleteContainer of onDelete that finds a session
\* removes it, stops its tailer once and invokes OnExit once; and while
\* onDelete is processed the keys of the pod's init containers stay as they
\* are: neither removed nor stopped, and no OnExit for them.
C14_DeleteRegularOnly ==
    [][\A t \in Informers :
         frame[t].ev = "delete"
         => LET pod == frame[t].pod
            IN  /\ (pc[t] = "loop" /\ pc'[t] = "idle")
                   => \A i \in DOMAIN pod.Containers :
                        buildKey(pod, pod.Containers[i]) \notin DOMAIN tailers'
                /\ (/\ pc[t] = "deleteContainer"
                    /\ pc'[t] = "loop"
                    /\ CallKey(t) \in DOMAIN tailers)
                   => /\ CallKey(t) \notin DOMAIN tailers'
                      /\ heap[tailers[CallKey(t)]].stops = 0
                      /\ heap'[tailers[CallKey(t)]].stops = 1
                      /\ onExitCalls'[CallKey(t)] = onExitCalls[CallKey(t)] + 1
                /\ \A i \in DOMAIN pod.InitContainers :
                     LET k == buildKey(pod, pod.InitContainers[i])
                     IN  /\ k \in DOMAIN tailers' <=> k \in DOMAIN tailers
                         /\ k \in DOMAIN tailers
                            => /\ tailers'[k] = tailers[k]
                               /\ heap'[tailers[k]].stops = 0
                         /\ onExitCalls'[k] = onExitCalls[k]]_vars

\* C14 witness: onDelete of p1 has gone through the regular containers; the
\* session of c1 was stopped with one OnExit, and the session of init-a is
\* still registered and was not stopped.
C14_Witness ==
    \E t \in Informers :
        /\ pc[t] = "loop"
        /\ frame[t].ev = "delete"
        /\ frame[t].idx > Len(frame[t].pod.Containers)
        /\ <<"ns1", "p1", "c1">> \notin DOMAIN tailers
        /\ onExitCalls[<<"ns1", "p1", "c1">>] = 1
        /\ <<"ns1", "p1", "init-a">> \in DOMAIN tailers
        /\ heap[tailers[<<"ns1", "p1", "init-a">>]].stops = 0
        /\ onExitCalls[<<"ns1", "p1", "init-a">>] = 0

\* C15 as stated: a step that invokes Stop on a tailer is a step of a
\* deleteContainer called by onDelete.
C15_StopOnlyOnDelete ==
    [][\A i \in DOMAIN heap :
         heap'[i].stops # heap[i].stops
         => \E t \in Informers :
              /\ pc[t] = "deleteContainer"
              /\ frame[t].ev = "delete"]_vars

\* C15 amended: a step that invokes Stop on a tailer is a step of a
\* deleteContainer for that tailer's key, the tailer being the one registered
\* for it, called by onDelete or by onUpdate for a pod snapshot that fails the
\* inclusion policy for the container; nothing else stops a tailer.
C15_StopOnlyInDeleteContainer ==
    [][\A i \in DOMAIN heap :
         heap'[i].stops # heap[i].stops
         => \E t \in Informers :
              /\ pc[t] = "deleteContainer"
              /\ CallKey(t) = TailerKey(i)
              /\ CallKey(t) \in DOMAIN tailers
              /\ tailers[CallKey(t)] = i
              /\ \/ frame[t].ev = "delete"
                 \/ /\ frame[t].ev = "update"
                    /\ ~shouldIncludeContainer(frame[t].pod, frame[t].container)]_vars

\* C15 witness: the only event delivered is an update; its deleteContainer
\* has stopped the session that the initial-add pass had started.
C15_Witness ==
    \E t \in Informers :
        /\ nEvents = 1
        /\ pc[t] = "loop"
        /\ frame[t].ev = "update"
        /\ \E i \in DOMAIN heap :
             /\ TailerKey(i)[1] = Namespaces[t]
             /\ heap[i].stops = 1
             /\ onExitCalls[TailerKey(i)] = 1
             /\ TailerKey(i) \notin DOMAIN tailers

\* C16: a step that invokes OnError invokes it once, for the key of a started
\* tailer that runs (the identity copied when the session was registered), and
\* changes nothing else: the registry, every tailer, the OnEnter and OnExit
\* counts, and where each thread stands stay as they are, so no session is
\* removed, stopped or replaced.
C16_FailureReportedOnly ==
    /\ [](\A k \in Keys : onErrorCalls[k] > 0 => TailersOf(k) # {})
    /\ [][\A k \in Keys :
            onErrorCalls'[k] # onErrorCalls[k]
            => /\ onErrorCalls'[k] = onErrorCalls[k] + 1
               /\ \E i \in DOMAIN heap : TailerKey(i) = k /\ Running(i)
               /\ \A j \in Keys \ {k} : onErrorCalls'[j] = onErrorCalls[j]
               /\ tailers' = tailers
               /\ heap' = heap
               /\ onEnterCalls' = onEnterCalls
               /\ onExitCalls' = onExitCalls
               /\ pc' = pc
               /\ frame' = frame
               /\ mutex' = mutex]_vars

\* C16 witness: OnError has been invoked for a key whose one tailer is still
\* registered and running, while another session is registered and running.
C16_Witness ==
    \E k \in DOMAIN tailers :
        /\ onErrorCalls[k] = 1
        /\ Running(tailers[k])
        /\ Cardinality(TailersOf(k)) = 1
        /\ \E k2 \in DOMAIN tailers \ {k} :
             Running(tailers[k2]) /\ onErrorCalls[k2] = 0

\* thread t is inside addContainer or deleteContainer
InCall(t) == pc[t] \in {"addContainer", "register", "deleteContainer"}

\* C17: at most one thread is inside addContainer or deleteContainer, and it
\* is the holder of the mutex; from the call's existence check to its return
\* no step of another thread changes the registry, constructs or stops a
\* tailer, or invokes OnEnter or OnExit, so each call acts as one atomic step.
C17_CallsSerialized ==
    /\ [](/\ mutex = {t \in Threads : InCall(t)}
          /\ Cardinality(mutex) <= 1)
    /\ [][\A t \in Threads :
            (InCall(t) /\ pc'[t] = pc[t])
            => /\ tailers' = tailers
               /\ Len(heap') = Len(heap)
               /\ Stops' = Stops
               /\ onEnterCalls' = onEnterCalls
               /\ onExitCalls' = onExitCalls]_vars

\* C17 witness: the informer of ns1 is inside addContainer, past OnEnter,
\* while the Run thread stands before an addContainer call of its own in the
\* initial-add pass of ns2.
C17_Witness ==
    /\ pc[1] = "register"
    /\ pc[RunThread] = "loop"
    /\ frame[RunThread].ev = "initial"
    /\ \E i \in frame[RunThread].idx .. Len(frame[RunThread].pod.Containers) :
         shouldIncludeContainer(frame[RunThread].pod,
                                frame[RunThread].pod.Containers[i])
    /\ mutex = {1}

\* C18: shouldIncludeContainer returns true exactly when the pod phase is
\* Pending or Running, some init or regular status entry of the pod has the
\* container's name and a waiting, running or terminated state, the name
\* filter is empty or the container's name, the exclusion Matcher matches
\* neither pod nor container, and the inclusion Matcher matches one of them.
C18_InclusionExactly ==
    call.fn = "shouldIncludeContainer"
    => LET pod == call.pod
           container == call.container
           entries == pod.InitContainerStatuses \o pod.ContainerStatuses
       IN  call.ret =
             << /\ pod.Phase \in {"Pending", "Running"}
                /\ \E i \in DOMAIN entries :
                     /\ entries[i].Name = container.Name
                     /\ entries[i].State \in {"waiting", "running", "terminated"}
                /\ opts.ContainerName \in {"", container.Name}
                /\ ~MatchPod(opts.ExclusionMatcher, pod)
                /\ ~MatchContainer(opts.ExclusionMatcher, container)
                /\ \/ MatchPod(opts.InclusionMatcher, pod)
                   \/ MatchContainer(opts.InclusionMatcher, container) >>

\* C18 witness: shouldIncludeContainer has returned true for a container that
\* only the container side of the inclusion Matcher matches and whose only
\* status entries are one without a state and a terminated one.
C18_Witness ==
    /\ call.fn = "shouldIncludeContainer"
    /\ call.ret = <<TRUE>>
    /\ call.container.Name = "c1"
    /\ ~MatchPod(opts.InclusionMatcher, call.pod)
    /\ call.pod.ContainerStatuses =
         <<Status("c1", StateNone, 0), Status("c1", StateTerminated, 0)>>

\* C19: the initial-add pass and onAdd call addContainer for the included
\* containers of a pod in the order of the init containers followed by the
\* regular containers, each in declaration order, passing over none that is
\* included and going back to none; and OnEnter gets initialAdd = true from
\* the initial-add pass on the Run thread and false from onAdd and onUpdate.
C19_OrderAndFlag ==
    [][\A t \in Threads :
         LET pod == frame[t].pod
             order == pod.InitContainers \o pod.Containers
         IN  /\ (/\ pc[t] = "loop"
                 /\ pc'[t] = "addContainer"
                 /\ frame[t].ev \in {"initial", "add"})
                => /\ frame'[t].idx \in frame[t].idx .. Len(order)
                   /\ frame'[t].container = order[frame'[t].idx]
                   /\ \A j \in frame[t].idx .. (frame'[t].idx - 1) :
                        ~shouldIncludeContainer(pod, order[j])
             /\ (InCall(t) /\ pc'[t] = "loop")
                => frame'[t].idx = frame[t].idx + 1
             /\ (pc[t] = "addContainer" /\ pc'[t] # pc[t])
                => \A k \in Keys : \A a \in BOOLEAN, r \in BOOLEAN :
                     onEnterCalls'[k][<<a, r>>] # onEnterCalls[k][<<a, r>>]
                     => /\ k = CallKey(t)
                        /\ a = (frame[t].ev = "initial")
                        /\ a = (t = RunThread)]_vars

\* C19 witness: the initial-add pass of p1 has called addContainer for
\* init-a and then for c1 and stands at c2; OnEnter was invoked once for
\* each of the two, with initialAdd = true.
C19_Witness ==
    /\ pc[RunThread] = "loop"
    /\ frame[RunThread].ev = "initial"
    /\ frame[RunThread].idx = 3
    /\ EnterInitial(<<"ns1", "p1", "init-a">>) = 1
    /\ EnterCalls(<<"ns1", "p1", "init-a">>) = 1
    /\ EnterInitial(<<"ns1", "p1", "c1">>) = 1
    /\ EnterCalls(<<"ns1", "p1", "c1">>) = 1
    /\ EnterCalls(<<"ns1", "p1", "c2">>) = 0

\* C20 as stated: for each key the accepted OnEnter calls and the OnExit calls
\* alternate, and once the addContainer of an accepted OnEnter has returned
\* the key has a tailer for each accepted OnEnter.
C20_AcceptedEnterHasSession ==
    \A k \in Keys :
        /\ EnterAccepted(k) - onExitCalls[k] \in {0, 1}
        /\ (~\E t \in Threads : pc[t] = "register" /\ CallKey(t) = k)
           => EnterAccepted(k) = Cardinality(TailersOf(k))

\* the start timestamp of the call thread t is in cannot be resolved
ResolutionFails(t) ==
    /\ frame[t].ev # "initial"
    /\ ~opts.SinceStart
    /\ opts.Since = NilTime
    /\ RunningStarts(frame[t].pod, frame[t].container) = {}

\* C20 amended: when addContainer returns after OnEnter returned true, the
\* key is in the registry with a newly launched tailer unless the start
\* timestamp could not be resolved, in which case nothing is registered or
\* launched and no OnExit is invoked; for each key the tailers launched and
\* the OnExit calls alternate, and there are no more tailers than accepted
\* OnEnter calls.
C20_AcceptedEnterResolved ==
    /\ [](\A k \in Keys :
            /\ Cardinality(TailersOf(k)) - onExitCalls[k] \in {0, 1}
            /\ Cardinality(TailersOf(k)) - onExitCalls[k] = 1 <=> k \in DOMAIN tailers
            /\ Cardinality(TailersOf(k)) <= EnterAccepted(k))
    /\ [][\A t \in Threads :
            (pc[t] = "register" /\ pc'[t] = "loop")
            => IF ResolutionFails(t)
               THEN /\ CallKey(t) \notin DOMAIN tailers'
                    /\ heap' = heap
                    /\ onExitCalls' = onExitCalls
               ELSE /\ Len(heap') = Len(heap) + 1
                    /\ CallKey(t) \in DOMAIN tailers'
                    /\ tailers'[CallKey(t)] = Len(heap')
                    /\ <<heap'[Len(heap')].Namespace, heap'[Len(heap')].Pod,
                         heap'[Len(heap')].Container>> = CallKey(t)
                    /\ heap'[Len(heap')].run = "running"
                    /\ heap'[Len(heap')].stops = 0
                    /\ \A k \in DOMAIN tailers : tailers'[k] = tailers[k]]_vars

\* C20 witness: OnEnter has returned true twice for a key, in two add events
\* whose snapshot reports no running entry for it; no tailer was launched for
\* the key, it is not in the registry, and no OnExit was invoked for it.
C20_Witness ==
    \E k \in Keys :
        /\ onEnterCalls[k][<<FALSE, TRUE>>] = 2
        /\ TailersOf(k) = {}
        /\ k \notin DOMAIN tailers
        /\ onExitCalls[k] = 0
        /\ \A t \in Threads : ~InCall(t)

====
